---- MODULE Spec2Model ----
(***************************************************************************)
(* Model of bot.py: the Telethon NewMessage handler handle_new_message,    *)
(* the session map conversation_histories and the Gemini chat sessions.    *)
(*                                                                         *)
(* Every delivered event runs handle_new_message as its own asyncio task.  *)
(* A task runs without interruption between two awaits, so each action     *)
(* below is the code between one await and the next: the action fires when *)
(* the awaited call returns (or raises) and runs up to the next await.     *)
(***************************************************************************)
EXTENDS Integers, Sequences, FiniteSets, TLC

(* ---------------------------- bounds ---------------------------------- *)
\* number of inbound events delivered in one behaviour
MaxEvents == 2
\* granularity of the clock that the sleeping handlers observe
TimeStep == 20

(* ------------------------ program constants --------------------------- *)
\* bot.py:35-38
WHITELISTED_USERS == {129746969}
\* bot.py:49, the text of persona.txt
SYSTEM_PERSONA == "persona"
\* bot.py:99
OPENING_LINE == "This is Dan, who is this?"
\* bot.py:108, random.uniform(20, 40)
MinDelay == 20
MaxDelay == 40

(* --------------------------- input sets ------------------------------- *)
\* sender objects as event.get_sender() returns them: two unknown accounts,
\* the whitelisted account and the account the client is logged in as
Senders ==
    { [id |-> 42, is_self |-> FALSE],
      [id |-> 43, is_self |-> FALSE],
      [id |-> 129746969, is_self |-> FALSE],
      [id |-> 7, is_self |-> TRUE] }
\* event.message.text
Texts == {"Who is this?"}
\* response.text of the backend
Completions == {"reply a"}
\* samples of random.uniform(20, 40); the variant draws outside the interval
TypingDelaysMut == {10, MaxDelay}
TypingDelays == {MinDelay, MaxDelay}
Events == [is_private : BOOLEAN, sender : Senders, text : Texts]

NoText == "<none>"
NoSession == 0

VARIABLES
    handlers,                \* one record per invocation of handle_new_message, in arrival order
    conversation_histories,  \* bot.py:55, sender id -> chat session (index into sessions)
    sessions,                \* the ChatSession objects made by model.start_chat: their history
    sent,                    \* outbound messages the transport accepted, in order of acceptance
    llmLog,                  \* calls of send_message_async, in the order they were made
    sendLog                  \* calls of client.send_message, in the order they were made

vars == <<handlers, conversation_histories, sessions, sent, llmLog, sendLog>>

H == DOMAIN handlers

(* ------------------------- pure helpers ------------------------------- *)
\* Each helper is preceded by faulty variants of it (the test dropped, a turn
\* missing, ...); the properties below are required to tell them from the helper.

\* bot.py:73
IsPrivateMut(event) == TRUE
is_private(event) == event.is_private

\* bot.py:82
IsSelfMut(sender) == FALSE
is_self(sender) == sender.is_self

\* bot.py:86
IsWhitelistedMut(sender_id) == FALSE
is_whitelisted(sender_id) == sender_id \in WHITELISTED_USERS

\* bot.py:95, the negation of "sender_id not in conversation_histories"
HasHistoryMut(sender_id, ch) == FALSE
has_history(sender_id, ch) == sender_id \in DOMAIN ch

\* bot.py:97-100
StartChatHistoryMut == << [role |-> "user", parts |-> SYSTEM_PERSONA] >>
start_chat_history ==
    << [role |-> "user", parts |-> SYSTEM_PERSONA],
       [role |-> "model", parts |-> OPENING_LINE] >>

\* bot.py:114, what a successful send_message_async does to the session's history
SendMessageHistoryMut(history, message, reply) == history
SendMessageHistoryUserOnly(history, message, reply) ==
    history \o << [role |-> "user", parts |-> message] >>
send_message_history(history, message, reply) ==
    history \o << [role |-> "user", parts |-> message],
                  [role |-> "model", parts |-> reply] >>

\* bot.py:122-124, the except clause: it logs and touches neither the map nor the transport
ExceptDropsSession(ch, snt, h, sender_id) ==
    [ch |-> [k \in DOMAIN ch \ {sender_id} |-> ch[k]], snt |-> snt]
ExceptSendsNotice(ch, snt, h, sender_id) ==
    [ch |-> ch, snt |-> Append(snt, [to |-> sender_id, text |-> "error", h |-> h])]
except_clause(ch, snt, h, sender_id) == [ch |-> ch, snt |-> snt]

\* bot.py:120, the text handed to client.send_message; the variant echoes the inbound text
OutboundTextMut(hr) == hr.user_message
outbound_text(hr) == hr.bot_reply

\* bot.py:120, one accepted call of client.send_message delivers one message;
\* the variant delivers it a second time
SendMessageTwice(snt, msg) == Append(Append(snt, msg), msg)
send_message(snt, msg) == Append(snt, msg)

\* bot.py:105, leaving the "async with client.action(...)" block clears the typing
\* signal; the variant leaves it on
ActionExitMut(hr) == hr
action_exit(hr) == [hr EXCEPT !.typingOn = FALSE]

\* bot.py:113, the session the message is submitted to; the variant uses one
\* session for every sender
SessionOfAny(ch, sender_id) == ch[CHOOSE k \in DOMAIN ch : TRUE]
session_of(ch, sender_id) == ch[sender_id]

\* dict insert, bot.py:97; the variant rebinds the map to one that holds the new key only
PutFresh(ch, k, v) == [x \in {k} |-> v]
Put(ch, k, v) == [x \in DOMAIN ch \cup {k} |-> IF x = k THEN v ELSE ch[x]]

NewHandler(event) ==
    [ event        |-> event,
      pc           |-> "get_sender",
      outcome      |-> "running",
      failedAt     |-> "none",
      user_message |-> NoText,
      created      |-> FALSE,
      lenAtEntry   |-> 0,
      markedRead   |-> FALSE,
      typingOn     |-> FALSE,
      typed        |-> FALSE,
      typing_delay |-> 0,
      remaining    |-> 0,
      slept        |-> FALSE,
      chat_session |-> NoSession,
      llmCalls     |-> 0,
      bot_reply    |-> NoText,
      sends        |-> 0 ]

\* the variant never returns after the reply was accepted
ReturnBlocks(hr, outcome, stage) ==
    [hr EXCEPT !.pc = IF outcome = "replied" THEN "blocked" ELSE "done",
               !.outcome = outcome, !.failedAt = stage,
               !.user_message = NoText, !.typing_delay = 0, !.remaining = 0,
               !.chat_session = NoSession, !.bot_reply = NoText]
\* the handler returns: its locals are gone, what it did stays on record
Return(hr, outcome, stage) ==
    [hr EXCEPT !.pc = "done", !.outcome = outcome, !.failedAt = stage,
               !.user_message = NoText, !.typing_delay = 0, !.remaining = 0,
               !.chat_session = NoSession, !.bot_reply = NoText]

(* ----------------------------- Init ----------------------------------- *)
Init ==
    /\ handlers = << >>
    /\ conversation_histories = [k \in {} |-> NoSession]
    /\ sessions = << >>
    /\ sent = << >>
    /\ llmLog = << >>
    /\ sendLog = << >>

(* ---------------------------- actions --------------------------------- *)
\* bot.py:66-76: the transport delivers an event; the handler runs to its first await
NewMessage(event) ==
    /\ Len(handlers) < MaxEvents
    /\ handlers' = Append(handlers,
          IF is_private(event)
          THEN NewHandler(event)
          ELSE Return(NewHandler(event), "discarded", "none"))
    /\ UNCHANGED <<conversation_histories, sessions, sent, llmLog, sendLog>>

\* bot.py:76: get_sender raises; the call is outside the try, the error leaves the handler
GetSenderRaises(h) ==
    /\ handlers[h].pc = "get_sender"
    /\ handlers' = [handlers EXCEPT ![h] = Return(@, "escaped", "get_sender")]
    /\ UNCHANGED <<conversation_histories, sessions, sent, llmLog, sendLog>>

\* bot.py:76-104: get_sender returns; safety checks, session lookup/creation, mark_read is called
GetSenderReturns(h) ==
    LET sender == handlers[h].event.sender
        sender_id == sender.id
    IN
    /\ handlers[h].pc = "get_sender"
    /\ IF is_self(sender) \/ is_whitelisted(sender_id)
       THEN /\ handlers' = [handlers EXCEPT ![h] = Return(@, "discarded", "none")]
            /\ UNCHANGED <<conversation_histories, sessions, sent, llmLog, sendLog>>
       ELSE LET fresh == ~has_history(sender_id, conversation_histories)
                sessions1 == IF fresh THEN Append(sessions, start_chat_history) ELSE sessions
                ch1 == IF fresh
                       THEN Put(conversation_histories, sender_id, Len(sessions1))
                       ELSE conversation_histories
            IN
            /\ sessions' = sessions1
            /\ conversation_histories' = ch1
            /\ handlers' = [handlers EXCEPT
                  ![h].pc = "mark_read",
                  ![h].user_message = handlers[h].event.text,
                  ![h].created = fresh,
                  ![h].lenAtEntry = Len(sessions1[ch1[sender_id]])]
            /\ UNCHANGED <<sent, llmLog, sendLog>>

\* bot.py:122-124 reached from the await at which the handler is suspended
Caught(h, stage) ==
    LET sender_id == handlers[h].event.sender.id
        r == except_clause(conversation_histories, sent, h, sender_id)
    IN
    /\ handlers' = [handlers EXCEPT ![h] = Return(action_exit(@), "error", stage)]
    /\ conversation_histories' = r.ch
    /\ sent' = r.snt
    /\ UNCHANGED <<sessions, llmLog, sendLog>>

\* bot.py:104-105: mark_read returns; client.action(sender, 'typing') is entered
MarkReadReturns(h) ==
    /\ handlers[h].pc = "mark_read"
    /\ handlers' = [handlers EXCEPT ![h].pc = "action", ![h].markedRead = TRUE]
    /\ UNCHANGED <<conversation_histories, sessions, sent, llmLog, sendLog>>

MarkReadRaises(h) ==
    /\ handlers[h].pc = "mark_read"
    /\ Caught(h, "mark_read")

\* bot.py:105-110: the typing action is on; the delay is drawn and the sleep starts
ActionEntered(h, d) ==
    /\ handlers[h].pc = "action"
    /\ handlers' = [handlers EXCEPT ![h].pc = "sleep", ![h].typingOn = TRUE,
                                    ![h].typed = TRUE,
                                    ![h].typing_delay = d, ![h].remaining = d]
    /\ UNCHANGED <<conversation_histories, sessions, sent, llmLog, sendLog>>

ActionRaises(h) ==
    /\ handlers[h].pc = "action"
    /\ Caught(h, "typing")

\* time passes for every handler inside asyncio.sleep
Tick ==
    /\ \E h \in H : handlers[h].pc = "sleep" /\ handlers[h].remaining > 0
    /\ handlers' = [h \in H |->
          IF handlers[h].pc = "sleep"
          THEN [handlers[h] EXCEPT !.remaining =
                   IF @ > TimeStep THEN @ - TimeStep ELSE 0]
          ELSE handlers[h]]
    /\ UNCHANGED <<conversation_histories, sessions, sent, llmLog, sendLog>>

\* bot.py:110-114: the sleep is over; the session is looked up and the message submitted
SleepReturns(h) ==
    LET sender_id == handlers[h].event.sender.id
        cs == session_of(conversation_histories, sender_id)
    IN
    /\ handlers[h].pc = "sleep"
    /\ handlers[h].remaining = 0
    /\ handlers' = [handlers EXCEPT ![h].pc = "send_message_async", ![h].slept = TRUE,
                                    ![h].chat_session = cs,
                                    ![h].llmCalls = @ + 1]
    /\ llmLog' = Append(llmLog, [h |-> h, session |-> cs,
                                 message |-> handlers[h].user_message])
    /\ UNCHANGED <<conversation_histories, sessions, sent, sendLog>>

SleepRaises(h) ==
    /\ handlers[h].pc = "sleep"
    /\ Caught(h, "delay")

\* bot.py:114-120: the backend returns a completion; the block is left, send_message is called
SendMessageAsyncReturns(h, reply) ==
    LET cs == handlers[h].chat_session IN
    /\ handlers[h].pc = "send_message_async"
    /\ sessions' = [sessions EXCEPT
          ![cs] = send_message_history(@, handlers[h].user_message, reply)]
    /\ handlers' = [handlers EXCEPT
          ![h] = [action_exit(@) EXCEPT !.pc = "send_message", !.bot_reply = reply]]
    /\ sendLog' = Append(sendLog, [h |-> h, to |-> handlers[h].event.sender.id,
                                   text |-> outbound_text(handlers'[h])])
    /\ UNCHANGED <<conversation_histories, sent, llmLog>>

SendMessageAsyncRaises(h) ==
    /\ handlers[h].pc = "send_message_async"
    /\ Caught(h, "llm")

\* bot.py:120: the transport accepted the outbound message; the handler returns
SendMessageReturns(h) ==
    /\ handlers[h].pc = "send_message"
    /\ sent' = send_message(sent, [to |-> handlers[h].event.sender.id,
                                   text |-> outbound_text(handlers[h]), h |-> h])
    /\ handlers' = [handlers EXCEPT
          ![h] = Return([@ EXCEPT !.sends = @ + 1], "replied", "none")]
    /\ UNCHANGED <<conversation_histories, sessions, llmLog, sendLog>>

SendMessageRaises(h) ==
    /\ handlers[h].pc = "send_message"
    /\ Caught(h, "send")

Next ==
    \/ \E event \in Events : NewMessage(event)
    \/ \E h \in H : GetSenderReturns(h)
    \/ \E h \in H : GetSenderRaises(h)
    \/ \E h \in H : MarkReadReturns(h)
    \/ \E h \in H : MarkReadRaises(h)
    \/ \E h \in H, d \in TypingDelays : ActionEntered(h, d)
    \/ \E h \in H : ActionRaises(h)
    \/ Tick
    \/ \E h \in H : SleepReturns(h)
    \/ \E h \in H : SleepRaises(h)
    \/ \E h \in H, reply \in Completions : SendMessageAsyncReturns(h, reply)
    \/ \E h \in H : SendMessageAsyncRaises(h)
    \/ \E h \in H : SendMessageReturns(h)
    \/ \E h \in H : SendMessageRaises(h)

Spec == Init /\ [][Next]_vars

\* the steps of one invocation: an awaited call of handler h returns or raises
Step(h) ==
    /\ h \in H
    /\ \/ GetSenderReturns(h)
       \/ GetSenderRaises(h)
       \/ MarkReadReturns(h)
       \/ MarkReadRaises(h)
       \/ \E d \in TypingDelays : ActionEntered(h, d)
       \/ ActionRaises(h)
       \/ SleepReturns(h)
       \/ SleepRaises(h)
       \/ \E reply \in Completions : SendMessageAsyncReturns(h, reply)
       \/ SendMessageAsyncRaises(h)
       \/ SendMessageReturns(h)
       \/ SendMessageRaises(h)

\* what happens without a new event: time passes or an awaited call ends
Progress == Tick \/ \E h \in H : Step(h)

\* the event loop does not stop while a timer is pending or an awaited call can
\* return or raise; no event is obliged to arrive
FairSpec == Spec /\ WF_vars(Progress)

(* ===================== properties of the handler ====================== *)
\* helpers of the properties
IsUnknown(h) ==
    /\ handlers[h].event.is_private
    /\ ~handlers[h].event.sender.is_self
    /\ handlers[h].event.sender.id \notin WHITELISTED_USERS
SameSender(h1, h2) == handlers[h1].event.sender.id = handlers[h2].event.sender.id
InLog(log, h) == \E i \in DOMAIN log : log[i].h = h
Pos(log, h) == CHOOSE i \in DOMAIN log : log[i].h = h
Count(log, h) == Cardinality({i \in DOMAIN log : log[i].h = h})
IsPrefix(s, t) == Len(s) <= Len(t) /\ \A i \in DOMAIN s : s[i] = t[i]
\* the handler left no trace: no session made, nothing read, no typing, no LLM call, no send
NoEffects(h) ==
    /\ ~handlers[h].created
    /\ ~handlers[h].markedRead
    /\ ~handlers[h].typed /\ ~handlers[h].typingOn
    /\ handlers[h].llmCalls = 0 /\ ~InLog(llmLog, h)
    /\ handlers[h].sends = 0 /\ ~InLog(sent, h) /\ ~InLog(sendLog, h)
SelfIds == {s.id : s \in {x \in Senders : x.is_self}}

\* C1: an event that is not private has no side effect: its handler creates no
\* session, marks nothing read, emits no typing signal, makes no LLM call and
\* sends nothing, whatever its sender; delivering it changes neither the map,
\* the sessions, the outbound messages nor the LLM calls.
C1_NonPrivateNoSideEffects ==
    /\ [](\A h \in H : ~handlers[h].event.is_private =>
             NoEffects(h) /\ handlers[h].pc = "done" /\ handlers[h].outcome = "discarded")
    /\ [][\A h \in DOMAIN handlers' :
             (~handlers'[h].event.is_private /\ (h \notin H \/ handlers'[h] # handlers[h]))
                => UNCHANGED <<conversation_histories, sessions, sent, llmLog, sendLog>>]_vars

\* a group event of an unknown sender was discarded while that sender has a session
C1_Witness ==
    \E h \in H :
        /\ ~handlers[h].event.is_private
        /\ handlers[h].event.sender.id = 42
        /\ handlers[h].pc = "done"
        /\ 42 \in DOMAIN conversation_histories

\* C2: a private event sent by the bot's own account creates no session, makes
\* no LLM call and sends no outbound message.
C2_SelfIgnored ==
    \A h \in H :
        (handlers[h].event.is_private /\ handlers[h].event.sender.is_self) =>
            /\ ~handlers[h].created
            /\ handlers[h].llmCalls = 0 /\ ~InLog(llmLog, h)
            /\ handlers[h].sends = 0 /\ ~InLog(sent, h)
            /\ \A i \in DOMAIN sent : sent[i].to # handlers[h].event.sender.id

\* the handler of a private event of the own account has returned from get_sender
C2_Witness ==
    \E h \in H :
        /\ handlers[h].event.is_private
        /\ handlers[h].event.sender.is_self
        /\ handlers[h].outcome = "discarded"

\* C3: a private event of a whitelisted sender creates no session and sends no
\* outbound message; the keys of conversation_histories never contain a
\* whitelisted id or the own account's id.
C3_WhitelistedIgnored ==
    /\ \A h \in H :
          (handlers[h].event.is_private
             /\ handlers[h].event.sender.id \in WHITELISTED_USERS) =>
                /\ ~handlers[h].created
                /\ handlers[h].sends = 0 /\ ~InLog(sent, h)
    /\ DOMAIN conversation_histories \cap (WHITELISTED_USERS \cup SelfIds) = {}
    /\ \A i \in DOMAIN sent : sent[i].to \notin WHITELISTED_USERS

\* a private event of the whitelisted sender was discarded
C3_Witness ==
    \E h \in H :
        /\ handlers[h].event.is_private
        /\ handlers[h].event.sender.id \in WHITELISTED_USERS
        /\ handlers[h].outcome = "discarded"

\* C4: at most one session per sender under every interleaving: of the handlers
\* of one sender at most one has called start_chat, the map never holds more
\* sessions than keys, and an entry of the map is never replaced or removed.
C4_OneSessionPerSender ==
    /\ [](/\ \A s \in Senders :
               Cardinality({h \in H : handlers[h].event.sender.id = s.id
                                        /\ handlers[h].created}) <= 1
          /\ Len(sessions) = Cardinality(DOMAIN conversation_histories))
    /\ [][\A k \in DOMAIN conversation_histories :
             k \in DOMAIN conversation_histories'
               /\ conversation_histories'[k] = conversation_histories[k]]_vars

\* two handlers of the same unknown sender overlap, both suspended at the delay or the LLM call
C4_Witness ==
    \E h1, h2 \in H :
        /\ h1 # h2
        /\ SameSender(h1, h2)
        /\ handlers[h1].pc \in {"sleep", "send_message_async"}
        /\ handlers[h2].pc \in {"sleep", "send_message_async"}
        /\ handlers[h1].created /\ ~handlers[h2].created

\* C5: the session made for a first-time unknown sender holds exactly the
\* persona preamble (role user) followed by "This is Dan, who is this?" (role
\* model) at the moment it enters the map.
C5_SeededSession ==
    /\ [][\A s \in Senders :
             (s.id \notin DOMAIN conversation_histories
                /\ s.id \in DOMAIN conversation_histories')
             => sessions'[conversation_histories'[s.id]] =
                   << [role |-> "user", parts |-> SYSTEM_PERSONA],
                      [role |-> "model", parts |-> "This is Dan, who is this?"] >>]_vars
    /\ [](\A h \in H : handlers[h].created => handlers[h].lenAtEntry = 2)

\* the handler of a first message has made the session and waits for mark_read
C5_Witness ==
    \E h \in H :
        /\ handlers[h].created
        /\ handlers[h].pc = "mark_read"
        /\ Len(sessions[conversation_histories[handlers[h].event.sender.id]]) = 2

\* the handler got past the safety checks while its sender already had a session
Reused(h) == IsUnknown(h) /\ handlers[h].lenAtEntry > 0 /\ ~handlers[h].created

C7_LlmErrorKeepsSession ==
    \A h \in H :
        handlers[h].failedAt = "llm" =>
            LET sender_id == handlers[h].event.sender.id IN
            /\ handlers[h].sends = 0 /\ ~InLog(sent, h)
            /\ handlers[h].pc = "done" /\ handlers[h].outcome = "error"
            /\ sender_id \in DOMAIN conversation_histories
            /\ conversation_histories[sender_id] = llmLog[Pos(llmLog, h)].session
            /\ \A h2 \in H :
                  (h2 > h /\ SameSender(h, h2) /\ handlers[h2].outcome = "replied") =>
                      /\ Count(llmLog, h2) = 1
                      /\ llmLog[Pos(llmLog, h2)].session = llmLog[Pos(llmLog, h)].session
                      /\ Count(sent, h2) = 1
                      /\ sent[Pos(sent, h2)].to = sender_id
                      /\ sent[Pos(sent, h2)].text \in Completions

\* the LLM call of one message raised and a later message of the same sender was answered
C7_Witness ==
    \E h, h2 \in H :
        /\ h2 > h
        /\ SameSender(h, h2)
        /\ handlers[h].failedAt = "llm"
        /\ handlers[h2].outcome = "replied"

Stages == {"mark_read", "typing", "delay", "llm", "send"}

\* C8: a failure at mark-read, typing signal, delay, LLM call or send is caught
\* in the handler: the invocation ends normally, no stage after the failed one
\* has run, and no outbound message exists for that event.
C8_FailureCaughtSilently ==
    \A h \in H :
        handlers[h].failedAt \in Stages =>
            /\ handlers[h].pc = "done" /\ handlers[h].outcome = "error"
            /\ handlers[h].sends = 0 /\ ~InLog(sent, h)
            /\ handlers[h].failedAt = "mark_read" =>
                  ~handlers[h].markedRead /\ ~handlers[h].typed
            /\ handlers[h].failedAt \in {"mark_read", "typing"} =>
                  ~handlers[h].typed
            /\ handlers[h].failedAt \in {"mark_read", "typing", "delay"} =>
                  ~handlers[h].slept /\ handlers[h].llmCalls = 0 /\ ~InLog(llmLog, h)
            /\ handlers[h].failedAt \in {"mark_read", "typing", "delay", "llm"} =>
                  ~InLog(sendLog, h)
            /\ Len(sent) = Cardinality({g \in H : handlers[g].outcome = "replied"})

\* the first and the last stage have failed, each in one handler
C8_Witness ==
    \E h1, h2 \in H :
        /\ handlers[h1].failedAt = "mark_read"
        /\ handlers[h2].failedAt = "send"

\* further cases of C8: the three stages in between fail
C8_WitnessTyping == \E h \in H : handlers[h].failedAt = "typing"
C8_WitnessDelay == \E h \in H : handlers[h].failedAt = "delay"
C8_WitnessLlm == \E h \in H : handlers[h].failedAt = "llm"

\* C9 as stated: when mark_read fails the reply flow goes on: the typing signal,
\* the delay, the LLM call and the send still take place for that message.
C9_MarkReadBestEffort ==
    \A h \in H :
        (handlers[h].failedAt = "mark_read" /\ handlers[h].pc = "done") =>
            /\ handlers[h].typed
            /\ handlers[h].slept
            /\ handlers[h].llmCalls = 1
            /\ handlers[h].sends = 1

\* C10 as stated: of two messages of the same unknown sender that are both
\* answered, the one that arrived first is submitted to the session first and
\* its reply is sent first.
C10_ArrivalOrder ==
    \A h1, h2 \in H :
        (/\ h1 < h2
         /\ SameSender(h1, h2)
         /\ handlers[h1].outcome = "replied"
         /\ handlers[h2].outcome = "replied") =>
            /\ Pos(llmLog, h1) < Pos(llmLog, h2)
            /\ Pos(sendLog, h1) < Pos(sendLog, h2)

\* C11: the delay that precedes a reply lies in [20, 40]: every handler that is
\* in or past its sleep has drawn a delay of at least 20 and at most 40, the
\* sleep is left for the LLM call only when the whole delay has passed, and a
\* message is accepted by the transport only for a handler that has waited it.
C11_DelayWithinBounds ==
    /\ [](\A h \in H :
             /\ handlers[h].pc \in {"sleep", "send_message_async", "send_message"} =>
                   handlers[h].typing_delay >= 20 /\ handlers[h].typing_delay <= 40
             /\ (InLog(llmLog, h) \/ InLog(sendLog, h) \/ InLog(sent, h)) =>
                   handlers[h].slept)
    /\ [][\A h \in H :
             (handlers[h].pc = "sleep" /\ handlers'[h].pc = "send_message_async") =>
                 /\ handlers[h].remaining = 0
                 /\ handlers'[h].typing_delay = handlers[h].typing_delay]_vars
    /\ [][\A h \in H :
             (~InLog(sent, h) /\ InLog(sent', h)) =>
                 /\ handlers[h].slept
                 /\ handlers[h].typing_delay >= 20 /\ handlers[h].typing_delay <= 40]_vars

\* a handler that drew the longest delay has waited it and is about to send its reply
C11_Witness ==
    \E h \in H :
        /\ handlers[h].pc = "send_message"
        /\ handlers[h].typing_delay = 40
        /\ handlers[h].slept

\* the order of the awaits in one invocation
StageOrder ==
    { <<"get_sender", "mark_read">>, <<"mark_read", "action">>, <<"action", "sleep">>,
      <<"sleep", "send_message_async">>, <<"send_message_async", "send_message">>,
      <<"send_message", "done">> }

\* C12: one invocation goes through mark-read, typing on, delay, LLM call,
\* typing off, send, in this order and without skipping a stage (it may only
\* leave early); the LLM call carries the event's text and goes to the sender's
\* session; a send is called only after the delay and the LLM call, with the
\* typing signal off, and its text is the completion the session recorded.
C12_StageOrder ==
    /\ [][\A h \in H :
             handlers'[h].pc # handlers[h].pc =>
                 \/ <<handlers[h].pc, handlers'[h].pc>> \in StageOrder
                 \/ handlers'[h].pc = "done"]_vars
    /\ [](\A h \in H :
             /\ handlers[h].typed => handlers[h].markedRead
             /\ handlers[h].slept => handlers[h].typed
             /\ InLog(llmLog, h) =>
                   /\ handlers[h].slept
                   /\ llmLog[Pos(llmLog, h)].message = handlers[h].event.text
                   /\ llmLog[Pos(llmLog, h)].session
                         = conversation_histories[handlers[h].event.sender.id]
             /\ InLog(sendLog, h) =>
                   /\ InLog(llmLog, h)
                   /\ ~handlers[h].typingOn
                   /\ sendLog[Pos(sendLog, h)].text \in Completions
                   /\ \E i \in DOMAIN sessions[llmLog[Pos(llmLog, h)].session] :
                         LET hist == sessions[llmLog[Pos(llmLog, h)].session] IN
                         /\ i > 1
                         /\ hist[i] = [role |-> "model",
                                       parts |-> sendLog[Pos(sendLog, h)].text]
                         /\ hist[i - 1] = [role |-> "user",
                                           parts |-> handlers[h].event.text]
             /\ InLog(sent, h) =>
                   /\ InLog(sendLog, h)
                   /\ sent[Pos(sent, h)].text = sendLog[Pos(sendLog, h)].text
                   /\ sent[Pos(sent, h)].to = handlers[h].event.sender.id)

\* a handler went through every stage and its reply was accepted
C12_Witness ==
    \E h \in H :
        /\ handlers[h].outcome = "replied"
        /\ handlers[h].markedRead /\ handlers[h].typed /\ handlers[h].slept
        /\ InLog(llmLog, h) /\ InLog(sendLog, h) /\ InLog(sent, h)

\* C13: nothing is retried: an event leads to at most one LLM call, one call of
\* send_message and one outbound message, also after a failure; a sender never
\* has more outbound messages than private events, and there are never more LLM
\* calls than private events of unknown senders.
C13_NoRetries ==
    /\ \A h \in H :
          /\ handlers[h].llmCalls <= 1 /\ Count(llmLog, h) <= 1
          /\ Count(sendLog, h) <= 1
          /\ handlers[h].sends <= 1 /\ Count(sent, h) <= 1
          /\ handlers[h].failedAt # "none" => Count(sent, h) = 0
    /\ \A s \in Senders :
          Cardinality({i \in DOMAIN sent : sent[i].to = s.id})
             <= Cardinality({h \in H : handlers[h].event.is_private
                                         /\ handlers[h].event.sender.id = s.id})
    /\ Len(llmLog) <= Cardinality({h \in H : IsUnknown(h)})

\* the LLM call of one event failed and was not repeated, a second event was answered once
C13_Witness ==
    \E h1, h2 \in H :
        /\ handlers[h1].failedAt = "llm" /\ handlers[h1].llmCalls = 1
        /\ handlers[h2].outcome = "replied" /\ Count(sent, h2) = 1

\* C14: a failure while handling a message leaves the sessions as they are: the
\* step that ends a handler with a caught error changes neither the map nor any
\* transcript; the session made by a first-time handler whose mark_read then
\* fails is still in the map and still starts with the preamble and the opening line.
C14_FailureLeavesSession ==
    /\ [][\A h \in H :
             (handlers[h].failedAt = "none" /\ handlers'[h].failedAt \in Stages) =>
                 /\ conversation_histories' = conversation_histories
                 /\ sessions' = sessions]_vars
    /\ [](\A h \in H :
             (handlers[h].created /\ handlers[h].failedAt \in Stages) =>
                 LET sender_id == handlers[h].event.sender.id IN
                 /\ sender_id \in DOMAIN conversation_histories
                 /\ Len(sessions[conversation_histories[sender_id]])
                       >= handlers[h].lenAtEntry
                 /\ IsPrefix(<< [role |-> "user", parts |-> SYSTEM_PERSONA],
                                [role |-> "model", parts |-> "This is Dan, who is this?"] >>,
                             sessions[conversation_histories[sender_id]]))

\* mark_read failed right after the session was made; the session holds its two seed turns
C14_Witness ==
    \E h \in H :
        /\ handlers[h].created
        /\ handlers[h].failedAt = "mark_read"
        /\ handlers[h].event.sender.id \in DOMAIN conversation_histories
        /\ Len(sessions[conversation_histories[handlers[h].event.sender.id]]) = 2

\* model replies in a sender's transcript after the opening line
RepliesRecorded(sender_id) ==
    Cardinality({i \in DOMAIN sessions[conversation_histories[sender_id]] :
                    i > 2 /\ sessions[conversation_histories[sender_id]][i].role = "model"})
\* outbound messages the transport accepted for a sender
RepliesDelivered(sender_id) == Cardinality({i \in DOMAIN sent : sent[i].to = sender_id})
HandlersOf(sender_id) == {h \in H : handlers[h].event.sender.id = sender_id}

C15_WitnessLlmFailed ==
    \E h \in H :
        /\ handlers[h].failedAt = "llm"
        /\ Len(sessions[conversation_histories[handlers[h].event.sender.id]]) = 2

\* C16: the typing signal of a handler is on exactly while the handler is in its
\* delay or its LLM call: it is off before the block is entered, off again when
\* the send is called, and off in every handler that has ended, whether the
\* block was left by success or by a failure of the delay or of the LLM call.
C16_TypingScoped ==
    /\ [](\A h \in H :
             /\ handlers[h].typingOn <=> handlers[h].pc \in {"sleep", "send_message_async"}
             /\ handlers[h].typingOn => handlers[h].typed
             /\ handlers[h].pc = "done" => ~handlers[h].typingOn)
    /\ [][\A h \in H :
             (handlers[h].typingOn /\ handlers'[h].pc # handlers[h].pc) =>
                 (handlers'[h].typingOn <=> handlers'[h].pc = "send_message_async")]_vars

\* the LLM call failed while the typing signal was on, and the signal is off
C16_Witness ==
    \E h \in H :
        /\ handlers[h].failedAt \in {"delay", "llm"}
        /\ handlers[h].typed
        /\ ~handlers[h].typingOn

\* further cases of C16: the signal is on during the LLM call, and off at the send
C16_WitnessOn == \E h \in H : handlers[h].pc = "send_message_async" /\ handlers[h].typingOn
C16_WitnessSend == \E h \in H : handlers[h].pc = "send_message" /\ ~handlers[h].typingOn

\* C17: sessions live as long as the process: no step removes a key of the map
\* or rebinds it, no step removes a session or shortens or rewrites a
\* transcript, and every session in the map starts with the persona preamble
\* followed by the opening line.
C17_SessionsOnlyGrow ==
    /\ [][/\ DOMAIN conversation_histories \subseteq DOMAIN conversation_histories'
          /\ \A k \in DOMAIN conversation_histories :
                conversation_histories'[k] = conversation_histories[k]
          /\ Len(sessions') >= Len(sessions)
          /\ \A sid \in DOMAIN sessions :
                /\ Len(sessions'[sid]) >= Len(sessions[sid])
                /\ IsPrefix(sessions[sid], sessions'[sid])]_vars
    /\ [](\A k \in DOMAIN conversation_histories :
             /\ conversation_histories[k] \in DOMAIN sessions
             /\ Len(sessions[conversation_histories[k]]) >= 2
             /\ sessions[conversation_histories[k]][1]
                   = [role |-> "user", parts |-> SYSTEM_PERSONA]
             /\ sessions[conversation_histories[k]][2]
                   = [role |-> "model", parts |-> "This is Dan, who is this?"])

\* two senders have a session, one of them with an answered message, and every handler has ended
C17_Witness ==
    /\ Cardinality(DOMAIN conversation_histories) = 2
    /\ \E k \in DOMAIN conversation_histories : Len(sessions[conversation_histories[k]]) = 4
    /\ \A h \in H : handlers[h].pc = "done"

\* C18: senders are isolated: a message is submitted only to the session of its
\* own sender and its completion goes only to that sender; a step of a handler
\* (a failing one included) changes neither the map entry nor the transcript of
\* any other sender, and a failing step leaves every other handler as it was.
C18_SendersIsolated ==
    /\ [](/\ \A i \in DOMAIN llmLog :
               llmLog[i].session
                  = conversation_histories[handlers[llmLog[i].h].event.sender.id]
          /\ \A i \in DOMAIN sendLog :
               sendLog[i].to = handlers[sendLog[i].h].event.sender.id
          /\ \A i \in DOMAIN sent :
               sent[i].to = handlers[sent[i].h].event.sender.id
          /\ \A k1, k2 \in DOMAIN conversation_histories :
               k1 # k2 => conversation_histories[k1] # conversation_histories[k2])
    /\ [][\A h \in H :
             handlers'[h] # handlers[h] =>
                 \A k \in DOMAIN conversation_histories :
                     k # handlers[h].event.sender.id =>
                         /\ k \in DOMAIN conversation_histories'
                         /\ conversation_histories'[k] = conversation_histories[k]
                         /\ sessions'[conversation_histories[k]]
                               = sessions[conversation_histories[k]]]_vars
    /\ [][\A h \in H :
             (handlers[h].failedAt = "none" /\ handlers'[h].failedAt # "none") =>
                 \A g \in H \ {h} : handlers'[g] = handlers[g]]_vars

\* a message of one sender failed and a message of another sender was answered from its own session
C18_Witness ==
    \E h1, h2 \in H :
        /\ ~SameSender(h1, h2)
        /\ handlers[h1].failedAt \in Stages
        /\ handlers[h1].event.sender.id \in DOMAIN conversation_histories
        /\ handlers[h2].outcome = "replied"
        /\ Len(sessions[conversation_histories[handlers[h2].event.sender.id]]) = 4
        /\ Len(sessions[conversation_histories[handlers[h1].event.sender.id]]) = 2

\* C19: with every awaited call eventually returning or raising and a fair event
\* loop, every invocation ends; an invocation for an unknown sender ends with
\* exactly one reply accepted and no failure, or with a failure on record and
\* nothing sent; and no invocation waits for another one: whatever the other
\* handlers do, the call a handler awaits can return (for the sleep: time can
\* pass, and the sleep can return once the delay has passed).
C19_HandlersFinish ==
    /\ \A n \in 1..MaxEvents :
          <>[](n \in H => handlers[n].pc = "done")
    /\ [](\A h \in H :
             (handlers[h].pc = "done" /\ IsUnknown(h)) =>
                 \/ /\ handlers[h].outcome = "replied"
                    /\ handlers[h].failedAt = "none"
                    /\ Count(sent, h) = 1
                 \/ /\ handlers[h].outcome \in {"error", "escaped"}
                    /\ handlers[h].failedAt # "none"
                    /\ Count(sent, h) = 0)
    /\ [](\A h \in H :
             /\ handlers[h].pc = "get_sender" => ENABLED GetSenderReturns(h)
             /\ handlers[h].pc = "mark_read" => ENABLED MarkReadReturns(h)
             /\ handlers[h].pc = "action" =>
                   ENABLED (\E d \in TypingDelays : ActionEntered(h, d))
             /\ (handlers[h].pc = "sleep" /\ handlers[h].remaining > 0) => ENABLED Tick
             /\ (handlers[h].pc = "sleep" /\ handlers[h].remaining = 0) =>
                   ENABLED SleepReturns(h)
             /\ handlers[h].pc = "send_message_async" =>
                   ENABLED (\E reply \in Completions : SendMessageAsyncReturns(h, reply))
             /\ handlers[h].pc = "send_message" => ENABLED SendMessageReturns(h))

\* a later event was answered while the handler of an earlier one is still suspended
C19_Witness ==
    \E h1, h2 \in H :
        /\ h1 < h2
        /\ handlers[h1].pc \in {"sleep", "send_message_async"}
        /\ handlers[h2].outcome = "replied"

====
